---- MODULE Spec2Model ----
(***************************************************************************)
(* A model of file_filter_app.py: the filter engine filter_results and the *)
(* FileFilterApp handlers (load_data, browse_folder, apply_filters,        *)
(* clear_filters, update_treeview) around it.                              *)
(*                                                                         *)
(* Python values are represented as follows.                               *)
(*   None, '' and []      the empty sequence <<>> (all three are falsy)    *)
(*   str                  a sequence of one-character strings              *)
(*   datetime.date        <<d>>, d the day number (always truthy)          *)
(*   datetime.datetime    [d, s, us, tz]: day, second of the day,          *)
(*                        microsecond, tz = "naive" or "utc"               *)
(*   a timestamp string   [kind |-> "iso", d, s, us, suffix] for the text  *)
(*                        YYYY-MM-DDTHH:MM:SS.ffffff followed by suffix    *)
(*                        ("" or "Z"); [kind |-> "text"] for a string that *)
(*                        is no ISO timestamp (such as '')                 *)
(*   dict                 a function; a missing key is outside its DOMAIN  *)
(*   a call's outcome     [exc |-> "none", value |-> v] for return v, and  *)
(*                        [exc |-> E, value |-> <<>>] for exception E      *)
(***************************************************************************)
EXTENDS Integers, Sequences, FiniteSets, TLC

VARIABLES
    arg_results,        \* filter_results: the results argument
    arg_spec,           \* filter_results: the seven keyword arguments
    ret,                \* filter_results: the outcome of the call
    pc,                 \* "start" before the call, "done" after it
    FOLDER_PATH,        \* module global FOLDER_PATH (line 14)
    sys_platform,       \* sys.platform (line 262)
    original_results,   \* FileFilterApp.original_results (line 162)
    filtered_results,   \* FileFilterApp.filtered_results (line 163)
    tree,               \* rows of FileFilterApp.tree (line 236)
    results_label,      \* numbers shown by FileFilterApp.results_label (line 227)
    name_var,           \* text of the name Entry (lines 153, 182)
    date_entry,         \* date shown by each of the six DateEntry widgets, None
                        \* when its text is empty (lines 187-216)
    scanned,            \* history: path and provider of the last enumeration
    last_op             \* history: the handler that ran last and its outcome

vars == <<arg_results, arg_spec, ret, pc, FOLDER_PATH, sys_platform,
          original_results, filtered_results, tree, results_label,
          name_var, date_entry, scanned, last_op>>

app_vars == <<FOLDER_PATH, sys_platform, original_results, filtered_results,
              tree, results_label, name_var, date_entry, scanned, last_op>>

-----------------------------------------------------------------------------
(* Bounds and input sets *)

\* longest record sequence given to filter_results
MaxLen == 2

\* the dates a date bound is drawn from
BoundDates == {1, 2}

None == <<>>

DateArgs == {"creation_date_from", "creation_date_to", "modified_date_from",
             "modified_date_to", "accessed_date_from", "accessed_date_to"}

-----------------------------------------------------------------------------
(* datetime *)

\* datetime.min.time(): 00:00:00
min_time == [s |-> 0, us |-> 0]

\* (a bug to test the properties against: the upper bound taken at midnight)
max_time_midnight == [s |-> 0, us |-> 0]

\* datetime.max.time(): 23:59:59.999999
max_time == [s |-> 86399, us |-> 999999]

\* datetime.combine(date, time): a naive datetime
combine(date, t) == [d |-> date[1], s |-> t.s, us |-> t.us, tz |-> "naive"]

\* str.replace('Z', '+00:00') followed by datetime.fromisoformat
fromisoformat(text) ==
    IF text.kind = "iso"
    THEN [exc |-> "none",
          value |-> [d |-> text.d, s |-> text.s, us |-> text.us,
                     tz |-> IF text.suffix = "Z" THEN "utc" ELSE "naive"]]
    ELSE [exc |-> "ValueError", value |-> <<>>]

\* whether comparing two datetimes raises TypeError (naive against aware)
cmp_raises(a, b) == a.tz # b.tz

\* a < b for two naive datetimes (or two aware ones in the same zone)
dt_lt(a, b) ==
    \/ a.d < b.d
    \/ a.d = b.d /\ a.s < b.s
    \/ a.d = b.d /\ a.s = b.s /\ a.us < b.us

dt_gt(a, b) == dt_lt(b, a)

-----------------------------------------------------------------------------
(* strings, os.path.basename and re.search *)

lower(c) ==
    CASE c = "A" -> "a"
      [] c = "B" -> "b"
      [] OTHER -> c

\* dict.get(key, default)
get(item, key, default) == IF key \in DOMAIN item THEN item[key] ELSE default

\* os.path.basename: what follows the last separator
basename(path) ==
    LET seps == {i \in 1..Len(path) : path[i] = "/"}
        last == IF seps = {} THEN 0 ELSE CHOOSE i \in seps : \A j \in seps : j <= i
    IN SubSeq(path, last + 1, Len(path))

\* re.compile fails on an unterminated character set; patterns are written
\* over letters, "." and "[", so a "[" is never closed
re_valid(pattern) == \A i \in 1..Len(pattern) : pattern[i] # "["

\* one pattern atom against one character under re.IGNORECASE
atom_match(a, c) == a = "." \/ lower(a) = lower(c)

\* re.search(pattern, string, re.IGNORECASE) for a valid pattern: a match at
\* some position, unanchored
re_search(pattern, string) ==
    \E i \in 1..(Len(string) - Len(pattern) + 1) :
        \A j \in 1..Len(pattern) : atom_match(pattern[j], string[i + j - 1])

-----------------------------------------------------------------------------
(* filter_results *)

Return(v) == [exc |-> "none", value |-> v]
Raise(e) == [exc |-> e, value |-> <<>>]

\* a timestamp string that is no ISO timestamp: the default '' of item.get
EmptyText == [kind |-> "text"]

\* (a bug to test the properties against: a bad pattern caught and taken as
\* "no match")
name_step_no_match(item, name_pattern) ==
    IF name_pattern = None THEN "pass"
    ELSE IF ~re_valid(name_pattern) THEN "continue"
    ELSE IF ~re_search(name_pattern, basename(get(item, "FullName", <<>>)))
         THEN "continue"
    ELSE "pass"

\* lines 114-116: the name test of one item; re.search compiles the pattern
\* when it is called, so a bad pattern raises here, at the first item
name_step(item, name_pattern) ==
    IF name_pattern = None THEN "pass"
    ELSE IF ~re_valid(name_pattern) THEN "re.error"
    ELSE IF ~re_search(name_pattern, basename(get(item, "FullName", <<>>)))
         THEN "continue"
    ELSE "pass"

\* (a bug to test the properties against: the lower bound compared the wrong
\* way round)
range_step_inverted_lower(time, date_from, date_to) ==
    IF date_from # None /\ cmp_raises(time, combine(date_from, min_time))
        THEN "TypeError"
    ELSE IF date_from # None /\ dt_gt(time, combine(date_from, min_time))
        THEN "continue"
    ELSE IF date_to # None /\ cmp_raises(time, combine(date_to, max_time))
        THEN "TypeError"
    ELSE IF date_to # None /\ dt_gt(time, combine(date_to, max_time))
        THEN "continue"
    ELSE "pass"

\* lines 124-127, 130-133, 136-139: the two tests of one timestamp; a bound
\* that is None is skipped by the short-circuit "and"
range_step(time, date_from, date_to) ==
    IF date_from # None /\ cmp_raises(time, combine(date_from, min_time))
        THEN "TypeError"
    ELSE IF date_from # None /\ dt_lt(time, combine(date_from, min_time))
        THEN "continue"
    ELSE IF date_to # None /\ cmp_raises(time, combine(date_to, max_time))
        THEN "TypeError"
    ELSE IF date_to # None /\ dt_gt(time, combine(date_to, max_time))
        THEN "continue"
    ELSE "pass"

\* (a bug to test the properties against: the access time never tested)
filter_item_skips_accessed(item, spec) ==
    LET n == name_step(item, spec.name_pattern)
        creation_time == fromisoformat(get(item, "CreationTime", EmptyText))
        modified_time == fromisoformat(get(item, "LastWriteTime", EmptyText))
        accessed_time == fromisoformat(get(item, "LastAccessTime", EmptyText))
        c == range_step(creation_time.value, spec.creation_date_from,
                        spec.creation_date_to)
        m == range_step(modified_time.value, spec.modified_date_from,
                        spec.modified_date_to)
    IN  IF n # "pass" THEN n
        ELSE IF creation_time.exc # "none" THEN creation_time.exc
        ELSE IF modified_time.exc # "none" THEN modified_time.exc
        ELSE IF accessed_time.exc # "none" THEN accessed_time.exc
        ELSE IF c # "pass" THEN c
        ELSE IF m # "pass" THEN m
        ELSE "append"

\* lines 113-141: the loop body for one item: "append", "continue" or the
\* exception it raises
filter_item(item, spec) ==
    LET n == name_step(item, spec.name_pattern)
        creation_time == fromisoformat(get(item, "CreationTime", EmptyText))
        modified_time == fromisoformat(get(item, "LastWriteTime", EmptyText))
        accessed_time == fromisoformat(get(item, "LastAccessTime", EmptyText))
        c == range_step(creation_time.value, spec.creation_date_from,
                        spec.creation_date_to)
        m == range_step(modified_time.value, spec.modified_date_from,
                        spec.modified_date_to)
        a == range_step(accessed_time.value, spec.accessed_date_from,
                        spec.accessed_date_to)
    IN  IF n # "pass" THEN n
        ELSE IF creation_time.exc # "none" THEN creation_time.exc
        ELSE IF modified_time.exc # "none" THEN modified_time.exc
        ELSE IF accessed_time.exc # "none" THEN accessed_time.exc
        ELSE IF c # "pass" THEN c
        ELSE IF m # "pass" THEN m
        ELSE IF a # "pass" THEN a
        ELSE "append"

RECURSIVE filter_loop(_, _, _, _)
filter_loop(results, spec, i, acc) ==
    IF i > Len(results) THEN Return(acc)
    ELSE LET step == filter_item(results[i], spec)
         IN  IF step = "append"
                 THEN filter_loop(results, spec, i + 1, Append(acc, results[i]))
             ELSE IF step = "continue"
                 THEN filter_loop(results, spec, i + 1, acc)
             ELSE Raise(step)

\* (a bug to test the properties against: kept items inserted at the front)
RECURSIVE filter_loop_prepend(_, _, _, _)
filter_loop_prepend(results, spec, i, acc) ==
    IF i > Len(results) THEN Return(acc)
    ELSE LET step == filter_item(results[i], spec)
         IN  IF step = "append"
                 THEN filter_loop_prepend(results, spec, i + 1, <<results[i]>> \o acc)
             ELSE IF step = "continue"
                 THEN filter_loop_prepend(results, spec, i + 1, acc)
             ELSE Raise(step)

filter_results_prepend(results, spec) == filter_loop_prepend(results, spec, 1, <<>>)

\* (a bug to test the properties against: the loop starts at the second item)
filter_results_skips_first(results, spec) == filter_loop(results, spec, 2, <<>>)

\* filter_results(results, name_pattern=..., creation_date_from=..., ...)
filter_results(results, spec) == filter_loop(results, spec, 1, <<>>)

-----------------------------------------------------------------------------
(* Inputs of filter_results *)

Iso(d, s, us, suffix) ==
    [kind |-> "iso", d |-> d, s |-> s, us |-> us, suffix |-> suffix]

\* the first and the last instant of day d, as local ISO timestamps
FirstInstant(d) == Iso(d, 0, 0, "")
LastInstant(d) == Iso(d, 86399, 999999, "")

Item(name, c, m, a, length) ==
    [k \in {"FullName", "CreationTime", "LastWriteTime", "LastAccessTime", "Length"} |->
        CASE k = "FullName" -> name
          [] k = "CreationTime" -> c
          [] k = "LastWriteTime" -> m
          [] k = "LastAccessTime" -> a
          [] OTHER -> length]

\* item without the key k
Without(item, k) == [j \in (DOMAIN item) \ {k} |-> item[j]]

\* the instants on both sides of a day boundary
Instants == <<LastInstant(0), FirstInstant(1), LastInstant(1), FirstInstant(2)>>

Paths == << <<"a", "/", "B">>, <<"A", "b">>, <<"b", "/", "b", "a">>, <<"b">> >>

\* records as the directory walk produces them: all three timestamps local
\* ISO strings; record i takes its timestamps from Instants, rotated by i
WellFormed ==
    {Item(Paths[i], Instants[i], Instants[(i % 4) + 1], Instants[((i + 1) % 4) + 1],
          IF i % 2 = 0 THEN None ELSE <<i>>) : i \in 1..4}

\* records with a timestamp that is missing, or that carries the UTC suffix
Malformed ==
    {Without(Item(Paths[2], Instants[2], Instants[2], Instants[2], <<1>>), "CreationTime"),
     Item(Paths[1], Instants[3], Iso(1, 0, 0, "Z"), Instants[3], None),
     Item(Paths[4], Instants[2], Instants[3], EmptyText, <<2>>)}

RecordPool == WellFormed \cup Malformed

SeqsUpTo(n, S) == UNION {[1..k -> S] : k \in 0..n}

Patterns == {None, <<"a">>, <<".", "B">>, <<"[">>}

OptDates == {None} \cup {<<d>> : d \in BoundDates}

FilterSpecs ==
    [name_pattern : Patterns,
     creation_date_from : OptDates, creation_date_to : OptDates,
     modified_date_from : OptDates, modified_date_to : OptDates,
     accessed_date_from : OptDates, accessed_date_to : OptDates]

EmptySpec ==
    [name_pattern |-> None,
     creation_date_from |-> None, creation_date_to |-> None,
     modified_date_from |-> None, modified_date_to |-> None,
     accessed_date_from |-> None, accessed_date_to |-> None]

NoCall == [exc |-> "nocall", value |-> <<>>]

-----------------------------------------------------------------------------
(* The filter engine on its own: inputs are drawn, then filter_results runs *)

\* FOLDER_PATH = r"E:\2022" (line 14)
InitialFolder == <<"E">>

\* the application as __init__ leaves it before load_data (lines 152-163),
\* with no scan made
AppIdle ==
    /\ FOLDER_PATH = InitialFolder
    /\ sys_platform = "linux"
    /\ original_results = <<>>
    /\ filtered_results = <<>>
    /\ tree = <<>>
    /\ results_label = <<0>>
    /\ name_var = <<>>
    /\ date_entry = [a \in DateArgs |-> None]
    /\ scanned = [provider |-> "none", path |-> <<>>]
    /\ last_op = [op |-> "none", arg |-> <<>>, exc |-> "none"]

InitFilter ==
    /\ arg_results \in SeqsUpTo(MaxLen, RecordPool)
    /\ arg_spec \in FilterSpecs
    /\ ret = NoCall
    /\ pc = "start"
    /\ AppIdle

\* filter_results(arg_results, **arg_spec)
Call ==
    /\ pc = "start"
    /\ ret' = filter_results(arg_results, arg_spec)
    /\ pc' = "done"
    /\ UNCHANGED <<arg_results, arg_spec>>
    /\ UNCHANGED app_vars

\* filter_results applied to its own output with the same spec
CallOnOutput ==
    /\ pc = "done"
    /\ ret.exc = "none"
    /\ arg_results' = ret.value
    /\ ret' = filter_results(ret.value, arg_spec)
    /\ pc' = "again"
    /\ UNCHANGED arg_spec
    /\ UNCHANGED app_vars

NextFilter == Call \/ CallOnOutput

SpecFilter == InitFilter /\ [][NextFilter]_vars

-----------------------------------------------------------------------------
(* The metadata providers *)

\* the folders the dialog can return: the initial one and another
Folders == {InitialFolder, <<"P">>}

\* what can be on disk: the set of folders that exist (E:\2022 may be missing)
Disks == {{InitialFolder, <<"P">>}, {<<"P">>}}

\* os.path.exists(path) on disk
Exists(path, disk) == path \in disk

\* the entries under a folder: a file, a directory and a file inside it
\* (Length is None for a directory)
Entries(path) ==
    IF path = InitialFolder
        THEN {Item(path \o <<"/", "a">>, Instants[2], Instants[3], Instants[4], <<1>>),
              Item(path \o <<"/", "B">>, Instants[3], Instants[4], Instants[1], None),
              Item(path \o <<"/", "B", "/", "a", "b">>, Instants[4], Instants[1], Instants[2], <<2>>)}
    ELSE IF path = <<"P">>
        THEN {Item(path \o <<"/", "b">>, Instants[3], Instants[3], Instants[3], None),
              Item(path \o <<"/", "b", "/", "A">>, Instants[1], Instants[2], Instants[3], <<3>>)}
    ELSE {}

\* inner lies inside the directory outer
IsInside(inner, outer) ==
    LET dir == outer["FullName"] \o <<"/">>
    IN  /\ Len(inner["FullName"]) > Len(dir)
        /\ SubSeq(inner["FullName"], 1, Len(dir)) = dir

\* the orders in which an enumeration can yield the entries of a folder: the
\* order is the file system's, but a directory comes before what it contains
Listing(path, disk) ==
    IF ~Exists(path, disk) THEN {<<>>}
    ELSE LET items == Entries(path)
             n == Cardinality(items)
         IN  {ls \in [1..n -> items] :
                /\ \A i, j \in 1..n : i # j => ls[i] # ls[j]
                /\ \A i, j \in 1..n : IsInside(ls[j], ls[i]) => i < j}

\* run_powershell_command(folder_path): the values it can return: the listing
\* as parsed from the JSON output, or [] when the command fails or prints
\* nothing
run_powershell_command(folder_path, disk) == Listing(folder_path, disk) \cup {<<>>}

\* get_file_info_cross_platform(path): the values it can return; [] for a
\* path that does not exist
get_file_info_cross_platform(path, disk) == Listing(path, disk)

\* the default of the parameter path: FOLDER_PATH as it was when the def
\* statement ran
default_path == InitialFolder

-----------------------------------------------------------------------------
(* FileFilterApp *)

\* str.strip() of the name text
RECURSIVE lstrip(_)
lstrip(text) ==
    IF text # <<>> /\ Head(text) = " " THEN lstrip(Tail(text)) ELSE text

RECURSIVE rstrip(_)
rstrip(text) ==
    IF text # <<>> /\ text[Len(text)] = " "
    THEN rstrip(SubSeq(text, 1, Len(text) - 1)) ELSE text

strip(text) == rstrip(lstrip(text))

\* the first 19 characters of a timestamp string: date and time to the second
head19(text) ==
    IF text.kind = "iso" THEN [kind |-> "iso19", d |-> text.d, s |-> text.s]
    ELSE text

\* lines 340-346: the row shown for one item
formatted_item(item) ==
    << get(item, "FullName", <<>>),
       head19(get(item, "CreationTime", EmptyText)),
       head19(get(item, "LastWriteTime", EmptyText)),
       head19(get(item, "LastAccessTime", EmptyText)),
       get(item, "Length", None) >>

\* update_treeview: the rows of the tree after it has run on items
update_treeview(items) == [i \in 1..Len(items) |-> formatted_item(items[i])]

\* lines 262-271 of load_data with FOLDER_PATH = folder: the enumerations
\* whose result can end up in original_results
load_data_scan(platform, folder, disk) ==
    LET walk == {[provider |-> "walk", path |-> default_path, results |-> r] :
                    r \in get_file_info_cross_platform(default_path, disk)}
        fallback == {[provider |-> "fallback", path |-> default_path, results |-> r] :
                        r \in get_file_info_cross_platform(default_path, disk)}
        native == run_powershell_command(folder, disk)
    IN  IF platform = "win32"
        THEN {[provider |-> "powershell", path |-> folder, results |-> r] :
                 r \in native \ {<<>>}}
             \cup (IF <<>> \in native THEN fallback ELSE {})
        ELSE walk

\* the dates picked in the DateEntry widgets
PickDates == {<<1>>}

FilterIdle ==
    /\ arg_results = <<>>
    /\ arg_spec = EmptySpec
    /\ ret = NoCall
    /\ pc = "start"

\* the state after FileFilterApp.__init__: the widgets are created (each
\* DateEntry shows the current date), then load_data runs
Init ==
    /\ FilterIdle
    /\ FOLDER_PATH = InitialFolder
    /\ sys_platform \in {"win32", "linux"}
    /\ name_var = <<>>
    /\ \E today \in PickDates : date_entry = [a \in DateArgs |-> today]
    /\ results_label = <<0>>
    /\ last_op = [op |-> "__init__", arg |-> <<>>, exc |-> "none"]
    /\ \E disk \in Disks :
        \E scan \in load_data_scan(sys_platform, InitialFolder, disk) :
            /\ original_results = scan.results
            /\ filtered_results = scan.results
            /\ tree = update_treeview(scan.results)
            /\ scanned = [provider |-> scan.provider, path |-> scan.path]

\* browse_folder with the dialog returning folder_selected. The handler has
\* no behaviour: line 279 reads FOLDER_PATH before the "global FOLDER_PATH" of
\* line 281, which Python rejects when it compiles the function (SyntaxError:
\* name 'FOLDER_PATH' is used prior to global declaration). Nothing it was
\* written to do happens: FOLDER_PATH is not assigned and load_data does not
\* run. (The other handlers are read as they compile on their own.)
browse_folder(folder_selected) ==
    /\ last_op' = [op |-> "browse_folder", arg |-> folder_selected,
                   exc |-> "SyntaxError"]
    /\ UNCHANGED <<FOLDER_PATH, sys_platform, original_results, filtered_results,
                   tree, results_label, name_var, date_entry, scanned>>
    /\ UNCHANGED <<arg_results, arg_spec, ret, pc>>

\* the filter spec apply_filters reads from the widgets
gui_spec ==
    [name_pattern |-> strip(name_var),
     creation_date_from |-> date_entry["creation_date_from"],
     creation_date_to |-> date_entry["creation_date_to"],
     modified_date_from |-> date_entry["modified_date_from"],
     modified_date_to |-> date_entry["modified_date_to"],
     accessed_date_from |-> date_entry["accessed_date_from"],
     accessed_date_to |-> date_entry["accessed_date_to"]]

\* (a bug to test the properties against: the filter applied to the view
\* shown, not to original_results)
apply_filters_incremental ==
    LET r == filter_results(filtered_results, gui_spec)
    IN  /\ last_op' = [op |-> "apply_filters", arg |-> <<>>, exc |-> r.exc]
        /\ IF r.exc = "none"
           THEN /\ filtered_results' = r.value
                /\ tree' = update_treeview(r.value)
                /\ results_label' = <<Len(r.value), Len(original_results)>>
           ELSE UNCHANGED <<filtered_results, tree, results_label>>
        /\ UNCHANGED <<FOLDER_PATH, sys_platform, original_results, name_var,
                       date_entry, scanned>>
        /\ UNCHANGED <<arg_results, arg_spec, ret, pc>>

\* apply_filters: an exception of filter_results leaves the handler before
\* anything is assigned
apply_filters ==
    LET r == filter_results(original_results, gui_spec)
    IN  /\ last_op' = [op |-> "apply_filters", arg |-> <<>>, exc |-> r.exc]
        /\ IF r.exc = "none"
           THEN /\ filtered_results' = r.value
                /\ tree' = update_treeview(r.value)
                /\ results_label' = <<Len(r.value), Len(original_results)>>
           ELSE UNCHANGED <<filtered_results, tree, results_label>>
        /\ UNCHANGED <<FOLDER_PATH, sys_platform, original_results, name_var,
                       date_entry, scanned>>
        /\ UNCHANGED <<arg_results, arg_spec, ret, pc>>

\* clear_filters
clear_filters ==
    /\ name_var' = <<>>
    /\ date_entry' = [a \in DateArgs |-> None]
    /\ filtered_results' = original_results
    /\ tree' = update_treeview(original_results)
    /\ results_label' = <<Len(original_results)>>
    /\ last_op' = [op |-> "clear_filters", arg |-> <<>>, exc |-> "none"]
    /\ UNCHANGED <<FOLDER_PATH, sys_platform, original_results, scanned>>
    /\ UNCHANGED <<arg_results, arg_spec, ret, pc>>

\* the user types into the name Entry
NameTexts == Patterns \cup {<<" ", "a", " ">>}

edit_name(text) ==
    /\ name_var' = text
    /\ UNCHANGED <<FOLDER_PATH, sys_platform, original_results, filtered_results,
                   tree, results_label, date_entry, scanned, last_op>>
    /\ UNCHANGED <<arg_results, arg_spec, ret, pc>>

\* the user picks a date in, or empties, one DateEntry
edit_date(a, text) ==
    /\ date_entry' = [date_entry EXCEPT ![a] = text]
    /\ UNCHANGED <<FOLDER_PATH, sys_platform, original_results, filtered_results,
                   tree, results_label, name_var, scanned, last_op>>
    /\ UNCHANGED <<arg_results, arg_spec, ret, pc>>

Next ==
    \/ \E f \in Folders \cup {<<>>} : browse_folder(f)
    \/ apply_filters
    \/ clear_filters
    \/ \E text \in NameTexts : edit_name(text)
    \/ \E a \in DateArgs, text \in {None} \cup PickDates : edit_date(a, text)

Spec == Init /\ [][Next]_vars

-----------------------------------------------------------------------------
(* Vocabulary of the properties *)

StampKeys == {"CreationTime", "LastWriteTime", "LastAccessTime"}

\* the two date bounds of each timestamp key
FromOf(spec, key) ==
    CASE key = "CreationTime" -> spec.creation_date_from
      [] key = "LastWriteTime" -> spec.modified_date_from
      [] OTHER -> spec.accessed_date_from

ToOf(spec, key) ==
    CASE key = "CreationTime" -> spec.creation_date_to
      [] key = "LastWriteTime" -> spec.modified_date_to
      [] OTHER -> spec.accessed_date_to

\* a timestamp that is present and is a local ISO timestamp
LocalStamp(item, key) ==
    /\ key \in DOMAIN item
    /\ item[key].kind = "iso"
    /\ item[key].suffix = ""

\* a timestamp that is missing, or is no ISO timestamp at all
BadStamp(item, key) == key \notin DOMAIN item \/ item[key].kind # "iso"

\* a record as the data model describes it
WellFormedItem(item) ==
    /\ "FullName" \in DOMAIN item
    /\ \A key \in StampKeys : LocalStamp(item, key)

AllWellFormed(results) == \A i \in 1..Len(results) : WellFormedItem(results[i])

NameHolds(item, spec) ==
    \/ spec.name_pattern = None
    \/ re_search(spec.name_pattern, basename(get(item, "FullName", <<>>)))

\* the day of the timestamp lies between the bounds that are set
DayInRange(stamp, date_from, date_to) ==
    /\ date_from = None \/ stamp.d >= date_from[1]
    /\ date_to = None \/ stamp.d <= date_to[1]

Satisfies(item, spec) ==
    /\ NameHolds(item, spec)
    /\ \A key \in StampKeys :
        DayInRange(item[key], FromOf(spec, key), ToOf(spec, key))

Kept(item) == \E j \in 1..Len(ret.value) : ret.value[j] = item

SomeBoundSet(spec) == \E key \in StampKeys : FromOf(spec, key) # None \/ ToOf(spec, key) # None

-----------------------------------------------------------------------------
(* C1 *)

\* C1: on well-formed records and a valid (or absent) name pattern,
\* filter_results returns exactly the records that satisfy every supplied
\* predicate, the name pattern on the basename and the set bounds of the three
\* timestamps; what is absent constrains nothing.
C1_KeepsExactlyTheMatches ==
    (pc # "start" /\ AllWellFormed(arg_results) /\ re_valid(arg_spec.name_pattern))
        => ret = Return(SelectSeq(arg_results, LAMBDA item : Satisfies(item, arg_spec)))

\* a call with a pattern and a bound that keeps one record and drops the other
C1_Witness ==
    /\ pc = "done"
    /\ AllWellFormed(arg_results)
    /\ arg_spec.name_pattern # None
    /\ re_valid(arg_spec.name_pattern)
    /\ SomeBoundSet(arg_spec)
    /\ Len(arg_results) = 2
    /\ ret.exc = "none"
    /\ Len(ret.value) = 1
    /\ \E i \in 1..2 : NameHolds(arg_results[i], arg_spec) /\ ~Kept(arg_results[i])

-----------------------------------------------------------------------------
(* C2 *)

\* stamp is at or after 00:00:00.000000 of day d
AtOrAfterStartOf(stamp, d) == stamp.d > d \/ (stamp.d = d /\ stamp.s >= 0 /\ stamp.us >= 0)

\* stamp is at or before 23:59:59.999999 of day d
AtOrBeforeEndOf(stamp, d) ==
    \/ stamp.d < d
    \/ stamp.d = d /\ stamp.s < 86399
    \/ stamp.d = d /\ stamp.s = 86399 /\ stamp.us <= 999999

InstantInRange(stamp, date_from, date_to) ==
    /\ date_from = None \/ AtOrAfterStartOf(stamp, date_from[1])
    /\ date_to = None \/ AtOrBeforeEndOf(stamp, date_to[1])

\* C2: the date bounds are inclusive at day granularity, for each of the three
\* timestamps: a well-formed record that passes the name test is kept iff each
\* timestamp is at or after the first instant of its lower bound date and at or
\* before the last instant (23:59:59.999999) of its upper bound date.
C2_BoundsInclusiveByDay ==
    (pc # "start" /\ ret.exc = "none")
        => \A i \in 1..Len(arg_results) :
            (WellFormedItem(arg_results[i]) /\ NameHolds(arg_results[i], arg_spec))
                => (Kept(arg_results[i])
                    <=> \A key \in StampKeys :
                            InstantInRange(arg_results[i][key], FromOf(arg_spec, key),
                                           ToOf(arg_spec, key)))

\* range [1, 1] on the modification time: the record stamped at the last
\* instant of day 1 is kept, the one stamped at 00:00:00 of day 2 is dropped
C2_Witness ==
    /\ pc = "done"
    /\ ret.exc = "none"
    /\ arg_spec.modified_date_from = <<1>>
    /\ arg_spec.modified_date_to = <<1>>
    /\ Len(arg_results) = 2
    /\ AllWellFormed(arg_results)
    /\ arg_results[1]["LastWriteTime"] = LastInstant(1)
    /\ arg_results[2]["LastWriteTime"] = FirstInstant(2)
    /\ ret.value = <<arg_results[1]>>

-----------------------------------------------------------------------------
(* C3 *)

NoAwareStamp(item) == \A key \in StampKeys : BadStamp(item, key) \/ LocalStamp(item, key)

\* the predicates evaluated field by field: a timestamp is tested only when a
\* bound is set on it, and a bad timestamp fails that test
FieldwiseSatisfies(item, spec) ==
    /\ NameHolds(item, spec)
    /\ \A key \in StampKeys :
        (FromOf(spec, key) # None \/ ToOf(spec, key) # None)
            => /\ LocalStamp(item, key)
               /\ DayInRange(item[key], FromOf(spec, key), ToOf(spec, key))

\* C3: a record with a missing or malformed timestamp never makes
\* filter_results fail; it is dropped only when a range is set on that
\* timestamp and is kept when its other predicates hold.
C3_BadStampNeverFails ==
    (/\ pc = "done"
     /\ re_valid(arg_spec.name_pattern)
     /\ \A i \in 1..Len(arg_results) : NoAwareStamp(arg_results[i]))
        => ret = Return(SelectSeq(arg_results,
                                  LAMBDA item : FieldwiseSatisfies(item, arg_spec)))

-----------------------------------------------------------------------------
(* C4 *)

\* C4: with a name pattern that is no valid regular expression,
\* filter_results signals the bad pattern whatever the records are, the empty
\* sequence included.
C4_BadPatternAlwaysSignalled ==
    (pc = "done" /\ ~re_valid(arg_spec.name_pattern)) => ret.exc = "re.error"

-----------------------------------------------------------------------------
(* C5 *)

\* C5: apply_filters with an invalid name pattern leaves filtered_results and
\* the rows shown as they were before the call.
C5_BadPatternKeepsView ==
    [][(apply_filters /\ ~re_valid(strip(name_var)))
        => (filtered_results' = filtered_results /\ tree' = tree)]_vars

\* apply_filters has just failed on a bad pattern while a narrowed, non-empty
\* view was shown
C5_Witness ==
    /\ last_op.op = "apply_filters"
    /\ last_op.exc = "re.error"
    /\ ~re_valid(strip(name_var))
    /\ filtered_results # <<>>
    /\ filtered_results # original_results
    /\ tree = update_treeview(filtered_results)

-----------------------------------------------------------------------------
(* C6 *)

\* C6: the spec with no field set is the identity: filter_results returns
\* every input record, in the input order, for every input sequence.
C6_EmptySpecIsIdentity ==
    (pc = "done" /\ arg_spec = EmptySpec) => ret = Return(arg_results)

-----------------------------------------------------------------------------
(* C7 *)

\* out is in, with some elements removed: an increasing choice of positions
IsSubsequence(out, in) ==
    \E f \in [1..Len(out) -> 1..Len(in)] :
        /\ \A j \in 1..Len(out) : out[j] = in[f[j]]
        /\ \A j, k \in 1..Len(out) : j < k => f[j] < f[k]

\* C7: whenever filter_results returns, what it returns is a subsequence of
\* its input: input records only, none more often than in the input, in the
\* input order.
C7_OutputIsSubsequence ==
    (pc # "start" /\ ret.exc = "none") => IsSubsequence(ret.value, arg_results)

\* two different records both kept under a spec that is not empty
C7_Witness ==
    /\ pc = "done"
    /\ ret.exc = "none"
    /\ arg_spec # EmptySpec
    /\ Len(ret.value) = 2
    /\ ret.value[1] # ret.value[2]

-----------------------------------------------------------------------------
(* C8 *)

\* C8: filter_results applied to its own output, with the same spec, returns
\* that output again. (In state "again" arg_results is the output of the
\* first call and ret the outcome of the second.)
C8_Idempotent ==
    pc = "again" => ret = Return(arg_results)

\* the second call ran on a non-empty output of a narrowing first call
C8_Witness ==
    /\ pc = "again"
    /\ arg_results # <<>>
    /\ arg_spec.name_pattern # None
    /\ SomeBoundSet(arg_spec)
    /\ ret.exc = "none"

-----------------------------------------------------------------------------
(* C9 *)

\* b is bound a made narrower: a lower bound set or raised
NarrowerFrom(a, b) == b # None /\ (a = None \/ b[1] > a[1])

\* an upper bound set or lowered
NarrowerTo(a, b) == b # None /\ (a = None \/ b[1] < a[1])

FromArgs == {"creation_date_from", "modified_date_from", "accessed_date_from"}

\* the specs that differ from spec in one date bound, made narrower
Narrowings(spec) ==
    {[spec EXCEPT ![a] = b] : a \in DateArgs, b \in OptDates} \cap
    {s \in FilterSpecs :
        \E a \in DateArgs :
            IF a \in FromArgs THEN NarrowerFrom(spec[a], s[a])
            ELSE NarrowerTo(spec[a], s[a])}

\* C9: narrowing a date range (raising a lower bound, lowering an upper
\* bound, setting an absent bound) never increases the number of records
\* filter_results returns for the same input.
C9_NarrowingNeverAddsRecords ==
    (pc = "done" /\ ret.exc = "none")
        => \A s \in Narrowings(arg_spec) :
            LET narrowed == filter_results(arg_results, s)
            IN  narrowed.exc = "none" => Len(narrowed.value) <= Len(ret.value)

\* a narrowing that returns strictly fewer records, by a raised lower bound
C9_Witness ==
    /\ pc = "done"
    /\ ret.exc = "none"
    /\ arg_spec.creation_date_from = <<1>>
    /\ LET s == [arg_spec EXCEPT !.creation_date_from = <<2>>]
           narrowed == filter_results(arg_results, s)
       IN  /\ narrowed.exc = "none"
           /\ Len(narrowed.value) < Len(ret.value)
           /\ Len(narrowed.value) > 0

-----------------------------------------------------------------------------
(* C10 *)

\* the values an enumeration of path can give, over the disks there can be
ListingsOf(path) == UNION {Listing(path, disk) : disk \in Disks}

\* C10: after browse_folder returns a non-empty selection P, the provider has
\* been run on P, original_results holds the records of P, and
\* filtered_results is all of original_results.
C10_BrowseScansSelection ==
    (last_op.op = "browse_folder" /\ last_op.arg # <<>>)
        => /\ scanned.path = last_op.arg
           /\ original_results \in ListingsOf(last_op.arg)
           /\ filtered_results = original_results

-----------------------------------------------------------------------------
(* C11 *)

\* C11: apply_filters and clear_filters never change original_results, and a
\* successful apply_filters leaves in filtered_results exactly the records of
\* original_results that satisfy the spec read from the widgets, whatever the
\* view shown before and whatever specs were applied earlier.
C11_FilteredFromScratch ==
    [][/\ (apply_filters \/ clear_filters) => original_results' = original_results
       /\ (apply_filters /\ last_op'.exc = "none")
            => filtered_results' =
                 SelectSeq(original_results, LAMBDA item : Satisfies(item, gui_spec))]_vars

\* apply_filters has succeeded with a pattern and a date bound set, and the
\* view holds some but not all of the loaded records: those that satisfy the
\* spec in the widgets
C11_Witness ==
    /\ last_op.op = "apply_filters"
    /\ last_op.exc = "none"
    /\ gui_spec.name_pattern # None
    /\ SomeBoundSet(gui_spec)
    /\ filtered_results # <<>>
    /\ Len(filtered_results) < Len(original_results)
    /\ filtered_results =
         SelectSeq(original_results, LAMBDA item : Satisfies(item, gui_spec))

====
